---- MODULE Spec2Model ----
(***************************************************************************)
(* A model of the oxc resolver (crates/oxc_resolver/src/lib.rs) and of the *)
(* import/first lint rule (crates/oxc_linter/src/rules/import/first.rs).   *)
(*                                                                         *)
(* Resolver: every access to the file system (Path::is_file,               *)
(* fs::read_to_string) is one step of a call, so that calls running on     *)
(* different threads and changes of the file system interleave between     *)
(* the existence test of a manifest and its read.                          *)
(***************************************************************************)
EXTENDS Integers, Sequences, FiniteSets, TLC

VARIABLES
    files,      \* the paths that exist as regular files
    content,    \* what reading each manifest path gives
    pc,         \* per thread: the file-system access the call makes next
    request,    \* per thread: the specifier of the call
    path,       \* per thread: the candidate path (lib.rs:47)
    main,       \* per thread: package_json.main as parsed (lib.rs:98)
    result,     \* per thread: what the call returned
    seen,       \* per thread: the paths this call saw is_file() answer true for
    clean,      \* per thread: no file-system change since the call began
    program,    \* import/first: the module linted (directive, body, references)
    fix,        \* import/first: whether the context asks for fixes
    phase,      \* import/first: where run_once is
    source_text,
    index,
    non_import_count,
    any_expressions,
    should_fix,
    last_import_statement_end,
    diagnostics,    \* import/first: what ctx has been given, in order
    input_components,   \* autocomplete-valid: the rule's configuration
    node,               \* autocomplete-valid: the element run() was given
    a11y_phase,         \* autocomplete-valid: new, configured, ran
    a11y_diagnostics    \* autocomplete-valid: what ctx has been given

resolverVars == <<files, content, pc, request, path, main, result, seen, clean>>

firstVars ==
    <<program, fix, phase, source_text, index, non_import_count,
      any_expressions, should_fix, last_import_statement_end, diagnostics>>

a11yVars == <<input_components, node, a11y_phase, a11y_diagnostics>>

vars == <<resolverVars, firstVars, a11yVars>>

----------------------------------------------------------------------------
(* Paths.  A path is a sequence of file names, a file name a sequence of   *)
(* its dot-separated parts: foo.min.js is <<"foo", "min", "js">>.          *)

\* The bound on the number of regular files in the file system.
MaxFiles == 3

Threads == {"t1", "t2"}

D == << <<"D">> >>

IndexJs == <<"index", "js">>

PackageJson == <<"package", "json">>

\* Path::join with a relative argument
Join(p, rel) == p \o rel

\* Path::with_extension: the extension of the file name, when it has one,
\* is replaced, otherwise the extension is added.
WithExtension(p, ext) ==
    LET name == p[Len(p)]
        stem == IF Len(name) > 1 THEN SubSeq(name, 1, Len(name) - 1) ELSE name
    IN  SubSeq(p, 1, Len(p) - 1) \o << stem \o <<ext>> >>

\* Path::with_file_name: the last component is replaced.
WithFileName(p, name) == SubSeq(p, 1, Len(p) - 1) \o <<name>>

\* The path with a suffix appended to its whole file name (X -> X.js).
AppendSuffix(p, ext) == SubSeq(p, 1, Len(p) - 1) \o << p[Len(p)] \o <<ext>> >>

IsProperPrefix(p, q) == Len(p) < Len(q) /\ SubSeq(q, 1, Len(p)) = p

----------------------------------------------------------------------------
(* The file system.                                                        *)

Foo == Join(D, << <<"foo">> >>)

FooMin == Join(D, << <<"foo", "min">> >>)

LibIndex == << <<"lib">>, <<"index">> >>

\* The values of the "main" field the manifests of the model declare.
Mains == {LibIndex}

\* What lies under a directory X: its manifest, its index.js, and for each
\* main field M the files X/M, X/M.js, X/M/index.js.
Under(X) ==
    {Join(X, <<PackageJson>>), Join(X, <<IndexJs>>)}
    \cup UNION {{Join(X, m), AppendSuffix(Join(X, m), "js"),
                 Join(Join(X, m), <<IndexJs>>)} : m \in Mains}

Universe ==
    {Foo, FooMin, AppendSuffix(Foo, "js"), AppendSuffix(FooMin, "js"),
     Join(D, <<IndexJs>>), Join(Foo, <<PackageJson>>)}
    \cup Under(FooMin)

ManifestPaths == {p \in Universe : p[Len(p)] = PackageJson}

\* A regular file has nothing under it.
Consistent(fs) == \A p, q \in fs : ~IsProperPrefix(p, q)

Absent == [kind |-> "absent", has_main |-> FALSE, main |-> <<>>]

Unreadable == [kind |-> "unreadable", has_main |-> FALSE, main |-> <<>>]

Invalid == [kind |-> "invalid", has_main |-> FALSE, main |-> <<>>]

NoMain == [kind |-> "valid", has_main |-> FALSE, main |-> <<>>]

WithMain(m) == [kind |-> "valid", has_main |-> TRUE, main |-> m]

\* What a manifest file can hold: bytes that cannot be read as text, text
\* that does not parse, a manifest without "main", a manifest with "main".
Contents == {Unreadable, Invalid, NoMain} \cup {WithMain(m) : m \in Mains}

\* Path::is_file
IsFile(p) == p \in files

----------------------------------------------------------------------------
(* Requests.                                                               *)

Specifier(lead, rest) == [lead |-> lead, rest |-> rest]

Requests ==
    {Specifier("./", << <<"foo", "min">> >>),
     Specifier("./", << <<"foo">> >>),
     Specifier("/", FooMin),
     Specifier("", <<>>),
     Specifier("foo", <<>>)}

\* Request::try_from: the kind of a specifier, from its leading characters.
RequestTryFrom(r) ==
    IF r.lead = "" /\ r.rest = <<>> THEN "Empty"
    ELSE IF r.lead \in {"./", "../"} THEN "Relative"
    ELSE IF r.lead = "/" THEN "Absolute"
    ELSE "Bare"

\* ResolvePath::join: the base directory joined with a relative request.
PathJoin(dir, r) == Join(dir, r.rest)

----------------------------------------------------------------------------
(* Results.                                                                *)

NoPath == <<>>

None == [kind |-> "None", path |-> NoPath]

NoResult == [kind |-> "None", path |-> NoPath, step |-> "idle"]

Ok(p) == [kind |-> "Ok", path |-> p]

NotFound == [kind |-> "NotFound", path |-> NoPath]

JSONError(p) == [kind |-> "JSONError", path |-> p]

RequestError == [kind |-> "RequestError", path |-> NoPath]

\* A panic: unreachable!() at lib.rs:57, unwrap() of a failed read at lib.rs:94.
Panic(p) == [kind |-> "Panic", path |-> p]

----------------------------------------------------------------------------
(* The steps of a call.                                                    *)

Idle(t) == pc[t] \in {"idle", "done"}

\* The call on thread t returns r from step; the step is kept with it.
ReturnAt(t, step, r) ==
    /\ pc' = [pc EXCEPT ![t] = "done"]
    /\ result' = [result EXCEPT ![t] =
                     [kind |-> r.kind, path |-> r.path, step |-> step]]

Return(t, r) == ReturnAt(t, pc[t], r)

\* The call on thread t goes on to its next file-system access.
Goto(t, label) ==
    /\ pc' = [pc EXCEPT ![t] = label]
    /\ UNCHANGED result

Saw(t, p) == seen' = [seen EXCEPT ![t] = @ \cup {p}]

\* Resolve with the candidate path kept in a place all calls share.
ResolveSharedPath(t, dir, r) ==
    /\ Idle(t)
    /\ request' = [request EXCEPT ![t] = r]
    /\ main' = [main EXCEPT ![t] = <<>>]
    /\ seen' = [seen EXCEPT ![t] = {}]
    /\ clean' = [clean EXCEPT ![t] = TRUE]
    /\ CASE RequestTryFrom(r) \in {"Empty", "Bare"} ->
              /\ ReturnAt(t, "resolve", RequestError)
              /\ UNCHANGED path
         [] RequestTryFrom(r) = "Relative" ->
              /\ Goto(t, "file")
              /\ path' = [u \in Threads |-> PathJoin(dir, r)]
         [] RequestTryFrom(r) = "Absolute" ->
              /\ ReturnAt(t, "resolve", Panic(NoPath))
              /\ UNCHANGED path
    /\ UNCHANGED <<files, content, firstVars, a11yVars>>

\* resolve / resolve_impl up to the first file-system access: the request
\* is classified and joined with the directory.
Resolve(t, dir, r) ==
    /\ Idle(t)
    /\ request' = [request EXCEPT ![t] = r]
    /\ main' = [main EXCEPT ![t] = <<>>]
    /\ seen' = [seen EXCEPT ![t] = {}]
    /\ clean' = [clean EXCEPT ![t] = TRUE]
    /\ CASE RequestTryFrom(r) \in {"Empty", "Bare"} ->
              /\ ReturnAt(t, "resolve", RequestError)
              /\ path' = [path EXCEPT ![t] = NoPath]
         [] RequestTryFrom(r) = "Relative" ->
              /\ Goto(t, "file")
              /\ path' = [path EXCEPT ![t] = PathJoin(dir, r)]
         [] RequestTryFrom(r) = "Absolute" ->
              /\ ReturnAt(t, "resolve", Panic(NoPath))
              /\ path' = [path EXCEPT ![t] = NoPath]
    /\ UNCHANGED <<files, content, firstVars, a11yVars>>

\* LoadAsFile1 with the test of X.js put before the test of X.
LoadAsFile1JsFirst(t) ==
    /\ pc[t] = "file"
    /\ IF IsFile(WithExtension(path[t], "js"))
       THEN Return(t, Ok(WithExtension(path[t], "js")))
            /\ Saw(t, WithExtension(path[t], "js"))
       ELSE IF IsFile(path[t])
       THEN Return(t, Ok(path[t])) /\ Saw(t, path[t])
       ELSE Goto(t, "file_js") /\ UNCHANGED seen
    /\ UNCHANGED <<files, content, request, path, main, clean, firstVars, a11yVars>>

\* load_as_file(X), step 1: X is a file.
LoadAsFile1(t) ==
    /\ pc[t] = "file"
    /\ IF IsFile(path[t])
       THEN Return(t, Ok(path[t])) /\ Saw(t, path[t])
       ELSE Goto(t, "file_js") /\ UNCHANGED seen
    /\ UNCHANGED <<files, content, request, path, main, clean, firstVars, a11yVars>>

\* load_as_file(X), step 2: X.js is a file; otherwise load_as_directory(X).
LoadAsFile2(t) ==
    /\ pc[t] = "file_js"
    /\ LET path_js == WithExtension(path[t], "js")
       IN  IF IsFile(path_js)
           THEN Return(t, Ok(path_js)) /\ Saw(t, path_js)
           ELSE Goto(t, "manifest") /\ UNCHANGED seen
    /\ UNCHANGED <<files, content, request, path, main, clean, firstVars, a11yVars>>

\* load_as_directory(X), step 1: X/package.json is a file; otherwise
\* load_index(X).
LoadAsDirectoryIsFile(t) ==
    /\ pc[t] = "manifest"
    /\ LET package_json_path == Join(path[t], <<PackageJson>>)
       IN  IF IsFile(package_json_path)
           THEN Goto(t, "read") /\ Saw(t, package_json_path)
           ELSE Goto(t, "index") /\ UNCHANGED seen
    /\ UNCHANGED <<files, content, request, path, main, clean, firstVars, a11yVars>>

\* LoadAsDirectoryRead with a parse failure taken for "no manifest".
LoadAsDirectoryReadLenient(t) ==
    /\ pc[t] = "read"
    /\ LET package_json_path == Join(path[t], <<PackageJson>>)
           c == IF package_json_path \in ManifestPaths
                THEN content[package_json_path] ELSE Absent
       IN  CASE c.kind \in {"absent", "unreadable"} ->
                  Return(t, Panic(package_json_path)) /\ UNCHANGED main
             [] c.kind = "invalid" ->
                  Goto(t, "index") /\ UNCHANGED main
             [] c.kind = "valid" /\ ~c.has_main ->
                  Return(t, NotFound) /\ UNCHANGED main
             [] c.kind = "valid" /\ c.has_main ->
                  Goto(t, "main") /\ main' = [main EXCEPT ![t] = c.main]
    /\ UNCHANGED <<files, content, request, path, seen, clean, firstVars, a11yVars>>

\* load_as_directory(X), step a: the manifest is read and parsed.
LoadAsDirectoryRead(t) ==
    /\ pc[t] = "read"
    /\ LET package_json_path == Join(path[t], <<PackageJson>>)
           c == IF package_json_path \in ManifestPaths
                THEN content[package_json_path] ELSE Absent
       IN  CASE c.kind \in {"absent", "unreadable"} ->
                  Return(t, Panic(package_json_path)) /\ UNCHANGED main
             [] c.kind = "invalid" ->
                  Return(t, JSONError(package_json_path)) /\ UNCHANGED main
             [] c.kind = "valid" /\ ~c.has_main ->
                  Return(t, NotFound) /\ UNCHANGED main
             [] c.kind = "valid" /\ c.has_main ->
                  Goto(t, "main") /\ main' = [main EXCEPT ![t] = c.main]
    /\ UNCHANGED <<files, content, request, path, seen, clean, firstVars, a11yVars>>

\* LoadMain going on to load_index(X) when the entry file is not found.
LoadMainThenIndex(t, label, found_js) ==
    /\ pc[t] = label
    /\ UNCHANGED <<files, content, request, path, main, clean, firstVars, a11yVars>>
    /\ LET main_field_path == Join(path[t], main[t])
           path_js == WithExtension(main_field_path, "js")
       IN  CASE label \in {"main", "main_again"} ->
                  IF IsFile(main_field_path)
                  THEN Return(t, Ok(main_field_path)) /\ Saw(t, main_field_path)
                  ELSE Goto(t, found_js) /\ UNCHANGED seen
             [] label = "main_js" ->
                  IF IsFile(path_js)
                  THEN Return(t, Ok(path_js)) /\ Saw(t, path_js)
                  ELSE Goto(t, found_js) /\ UNCHANGED seen
             [] label = "main_js_again" ->
                  IF IsFile(path_js)
                  THEN Return(t, Ok(path_js)) /\ Saw(t, path_js)
                  ELSE Goto(t, "index") /\ UNCHANGED seen

\* load_as_directory(X), steps d and e: load_as_file(M), twice over.
LoadMain(t, label, found_js) ==
    /\ pc[t] = label
    /\ UNCHANGED <<files, content, request, path, main, clean, firstVars, a11yVars>>
    /\ LET main_field_path == Join(path[t], main[t])
           path_js == WithExtension(main_field_path, "js")
       IN  CASE label \in {"main", "main_again"} ->
                  IF IsFile(main_field_path)
                  THEN Return(t, Ok(main_field_path)) /\ Saw(t, main_field_path)
                  ELSE Goto(t, found_js) /\ UNCHANGED seen
             [] label = "main_js" ->
                  IF IsFile(path_js)
                  THEN Return(t, Ok(path_js)) /\ Saw(t, path_js)
                  ELSE Goto(t, found_js) /\ UNCHANGED seen
             [] label = "main_js_again" ->
                  IF IsFile(path_js)
                  THEN Return(t, Ok(path_js)) /\ Saw(t, path_js)
                  ELSE Return(t, NotFound) /\ UNCHANGED seen

\* LoadIndex testing the path beside X and returning the path under X.
LoadIndexReturnsUntested(t) ==
    /\ pc[t] = "index"
    /\ LET index_js == WithFileName(path[t], IndexJs)
       IN  IF IsFile(index_js)
           THEN Return(t, Ok(Join(path[t], <<IndexJs>>))) /\ Saw(t, index_js)
           ELSE Return(t, NotFound) /\ UNCHANGED seen
    /\ UNCHANGED <<files, content, request, path, main, clean, firstVars, a11yVars>>

\* load_index(X)
LoadIndex(t) ==
    /\ pc[t] = "index"
    /\ LET index_js == WithFileName(path[t], IndexJs)
       IN  IF IsFile(index_js)
           THEN Return(t, Ok(index_js)) /\ Saw(t, index_js)
           ELSE Return(t, NotFound) /\ UNCHANGED seen
    /\ UNCHANGED <<files, content, request, path, main, clean, firstVars, a11yVars>>

----------------------------------------------------------------------------
(* The file system changes under the running calls.                        *)

Dirty == clean' = [t \in Threads |-> clean[t] /\ pc[t] = "idle"]

CreateFile(p, c) ==
    /\ p \notin files
    /\ Cardinality(files) < MaxFiles
    /\ Consistent(files \cup {p})
    /\ files' = files \cup {p}
    /\ content' = IF p \in ManifestPaths THEN [content EXCEPT ![p] = c] ELSE content
    /\ Dirty
    /\ UNCHANGED <<pc, request, path, main, result, seen, firstVars, a11yVars>>

RemoveFile(p) ==
    /\ p \in files
    /\ files' = files \ {p}
    /\ content' = IF p \in ManifestPaths THEN [content EXCEPT ![p] = Absent] ELSE content
    /\ Dirty
    /\ UNCHANGED <<pc, request, path, main, result, seen, firstVars, a11yVars>>

----------------------------------------------------------------------------

(***************************************************************************)
(* import/first (first.rs).  A module is a directive or none, and a body   *)
(* of statements; each statement is an import or not, and is preceded by   *)
(* white space or not.  Offsets count from 0, as spans do.                 *)
(***************************************************************************)

\* The bound on the number of statements in a module body.
MaxStatements == 3

\* One character of the text of statement k (0: white space, -1: directive).
Ch(k, c) == [s |-> k, c |-> c]

Space == <<Ch(0, 0)>>

DirectiveText == <<Ch(-1, 1), Ch(-1, 2)>>

ImportText(k) == <<Ch(k, 1), Ch(k, 2)>>

OtherText(k) == <<Ch(k, 1), Ch(k, 2), Ch(k, 3)>>

\* kind: an import declaration or another statement; referenced: the import
\* has a local binding that a statement of the body refers to; gap: white
\* space precedes the statement.
Statements == [kind : {"import", "other"}, referenced : BOOLEAN, gap : BOOLEAN]

Bodies == UNION {[1..n -> Statements] : n \in 0..MaxStatements}

WellFormed(p) ==
    /\ \A i \in 1..Len(p.body) :
         p.body[i].referenced =>
             /\ p.body[i].kind = "import"
             /\ \E j \in 1..Len(p.body) : p.body[j].kind = "other"

Programs == {p \in [directive : BOOLEAN, body : Bodies] : WellFormed(p)}

StatementText(p, i) ==
    (IF p.body[i].gap THEN Space ELSE <<>>)
    \o (IF p.body[i].kind = "import" THEN ImportText(i) ELSE OtherText(i))

RECURSIVE BodyText(_, _)
BodyText(p, n) ==
    IF n = 0 THEN <<>> ELSE BodyText(p, n - 1) \o StatementText(p, n)

\* ctx.source_text()
SourceText(p) ==
    (IF p.directive THEN DirectiveText ELSE <<>>) \o BodyText(p, Len(p.body))

\* directive.span()
DirectiveSpan == [start |-> 0, end |-> Len(DirectiveText)]

\* statement.span()
StatementSpan(p, i) ==
    LET before == (IF p.directive THEN Len(DirectiveText) ELSE 0)
                  + Len(BodyText(p, i - 1))
        end == (IF p.directive THEN Len(DirectiveText) ELSE 0)
               + Len(BodyText(p, i))
    IN  [start |-> before + (IF p.body[i].gap THEN 1 ELSE 0), end |-> end]

\* reference.span() of the references to the binding of import i: the
\* statements that are no imports hold them.
ReferenceSpans(p, i) ==
    IF p.body[i].referenced
    THEN {StatementSpan(p, j) : j \in {j \in 1..Len(p.body) : p.body[j].kind = "other"}}
    ELSE {}

\* &s[a..b]
Slice(s, a, b) == SubSeq(s, a + 1, b)

build_code(text, last_import_statement_span_end, import_decl_span) ==
    LET prefix_content == Slice(text, 0, last_import_statement_span_end)
        suffix_content == Slice(text, import_decl_span.end, Len(text))
        current_import_content ==
            Slice(text, import_decl_span.start, import_decl_span.end)
        last_content ==
            Slice(text, last_import_statement_span_end, import_decl_span.start)
        swaped_content == current_import_content \o last_content
    IN  prefix_content \o swaped_content \o suffix_content

\* run_once up to its loop (first.rs:39-53)
RunOnce ==
    /\ phase = "idle"
    /\ phase' = "loop"
    /\ source_text' = SourceText(program)
    /\ non_import_count' = 0
    /\ any_expressions' = FALSE
    /\ should_fix' = TRUE
    /\ last_import_statement_end' = 0
    /\ index' = 1
    /\ UNCHANGED <<program, fix, diagnostics, resolverVars, a11yVars>>

\* The loop over the local bindings of a late import and their references
\* (first.rs:86-102): "panic" where directive_span.unwrap() meets None,
\* otherwise the value should_fix has after it.
References(span_of_references) ==
    IF ~should_fix THEN "keep"
    ELSE IF span_of_references = {} THEN "keep"
    ELSE IF ~program.directive THEN "panic"
    ELSE IF \E r \in span_of_references : r.start < DirectiveSpan.end
         THEN "clear" ELSE "keep"

\* One turn of the loop over program.body (first.rs:55-144)
RunOnceStatement ==
    /\ phase = "loop"
    /\ index <= Len(program.body)
    /\ UNCHANGED <<program, fix, resolverVars, a11yVars>>
    /\ LET statement == program.body[index]
           span == StatementSpan(program, index)
           late == statement.kind = "import" /\ non_import_count > 0
           refs == References(ReferenceSpans(program, index))
           fixable == IF refs = "clear" THEN FALSE ELSE should_fix
           fixed_content == build_code(source_text, last_import_statement_end, span)
       IN  IF ~any_expressions /\ program.directive
              /\ DirectiveSpan.end >= span.start
           THEN \* break
                /\ phase' = "done"
                /\ UNCHANGED <<source_text, index, non_import_count,
                               any_expressions, should_fix,
                               last_import_statement_end, diagnostics>>
           ELSE IF late /\ refs = "panic"
           THEN /\ phase' = "panic"
                /\ any_expressions' = TRUE
                /\ UNCHANGED <<source_text, index, non_import_count, should_fix,
                               last_import_statement_end, diagnostics>>
           ELSE /\ any_expressions' = TRUE
                /\ index' = index + 1
                /\ phase' = "loop"
                /\ IF statement.kind = "import"
                   THEN /\ last_import_statement_end' =
                               last_import_statement_end + (span.end - span.start)
                        /\ UNCHANGED non_import_count
                        /\ IF late
                           THEN /\ should_fix' = fixable
                                /\ IF fixable /\ fix
                                   THEN /\ source_text' = fixed_content
                                        /\ diagnostics' = Append(diagnostics,
                                               [span |-> span, fixed |-> TRUE,
                                                content |-> fixed_content])
                                   ELSE /\ UNCHANGED source_text
                                        /\ diagnostics' = Append(diagnostics,
                                               [span |-> span, fixed |-> FALSE,
                                                content |-> <<>>])
                           ELSE UNCHANGED <<should_fix, source_text, diagnostics>>
                   ELSE /\ non_import_count' = non_import_count + 1
                        /\ UNCHANGED <<should_fix, source_text, diagnostics,
                                       last_import_statement_end>>

\* The loop has gone through the body: run_once returns.
RunOnceReturn ==
    /\ phase = "loop"
    /\ index > Len(program.body)
    /\ phase' = "done"
    /\ UNCHANGED <<program, fix, source_text, index, non_import_count,
                   any_expressions, should_fix, last_import_statement_end,
                   diagnostics, resolverVars, a11yVars>>

(***************************************************************************)
(* jsx-a11y/autocomplete-valid (autocomplete_valid.rs).  The value of an   *)
(* autocomplete attribute is a sequence of pieces: a piece is white space  *)
(* or a word, and words that touch make one longer token.                  *)
(***************************************************************************)

\* The bound on the number of pieces in an attribute value.
MaxValueLen == 5

\* The bound on the number of entries of a configured inputComponents array.
MaxComponents == 2

VALID_AUTOCOMPLETE_VALUES ==
    {"on", "name", "email", "username", "new-password", "current-password",
     "one-time-code", "off", "organization-title", "organization",
     "street-address", "address-line1", "address-line2", "address-line3",
     "address-level4", "address-level3", "address-level2", "address-level1",
     "country", "country-name", "postal-code", "cc-name", "cc-given-name",
     "cc-additional-name", "cc-family-name", "cc-number", "cc-exp",
     "cc-exp-month", "cc-exp-year", "cc-csc", "cc-type",
     "transaction-currency", "transaction-amount", "language", "bday",
     "bday-day", "bday-month", "bday-year", "sex", "tel", "tel-country-code",
     "tel-national", "tel-area-code", "tel-local", "tel-extension", "impp",
     "url", "photo", "webauthn"}

BILLING ==
    {"street-address", "address-line1", "address-line2", "address-line3",
     "address-level4", "address-level3", "address-level2", "address-level1",
     "country", "country-name", "postal-code"}

SHIPPING ==
    {"street-address", "address-line1", "address-line2", "address-line3",
     "address-level4", "address-level3", "address-level2", "address-level1",
     "country", "country-name", "postal-code"}

\* VALID_AUTOCOMPLETE_COMBINATIONS.get(key): the set, or none.
VALID_AUTOCOMPLETE_COMBINATIONS(key) ==
    IF key = "billing" THEN [some |-> TRUE, set |-> BILLING]
    ELSE IF key = "shipping" THEN [some |-> TRUE, set |-> SHIPPING]
    ELSE [some |-> FALSE, set |-> {}]

WhiteSpace == " "

\* The pieces attribute values are made of.
Pieces == {WhiteSpace, "name", "country", "billing", "shipping"}

Values == UNION {[1..n -> Pieces] : n \in 0..MaxValueLen}

\* str::split_whitespace: the maximal runs of pieces that are no white
\* space, from left to right.
RECURSIVE SplitFrom(_, _, _, _)
SplitFrom(value, i, current, parts) ==
    LET closed == IF current = <<>> THEN parts ELSE Append(parts, current)
    IN  IF i > Len(value) THEN closed
        ELSE IF value[i] = WhiteSpace
             THEN SplitFrom(value, i + 1, <<>>, closed)
             ELSE SplitFrom(value, i + 1, Append(current, value[i]), parts)

split_whitespace(value) == SplitFrom(value, 1, <<>>, <<>>)

\* phf::Set::contains of a token: a token of several words is a longer
\* string, which none of the sets holds.
Contains(set, token) == Len(token) = 1 /\ token[1] \in set

\* is_valid_autocomplete_value that looks the second token up in the list
\* of values, whatever the first token is.
is_valid_any_prefix(value) ==
    LET parts == split_whitespace(value)
    IN  CASE Len(parts) = 1 -> Contains(VALID_AUTOCOMPLETE_VALUES, parts[1])
          [] Len(parts) = 2 -> Contains(VALID_AUTOCOMPLETE_VALUES, parts[2])
          [] OTHER -> FALSE

is_valid_autocomplete_value(value) ==
    LET parts == split_whitespace(value)
    IN  CASE Len(parts) = 1 -> Contains(VALID_AUTOCOMPLETE_VALUES, parts[1])
          [] Len(parts) = 2 ->
                 LET valid_suffixes ==
                         IF Len(parts[1]) = 1
                         THEN VALID_AUTOCOMPLETE_COMBINATIONS(parts[1][1])
                         ELSE [some |-> FALSE, set |-> {}]
                 IN  IF valid_suffixes.some
                     THEN Contains(valid_suffixes.set, parts[2])
                     ELSE FALSE
          [] OTHER -> FALSE

\* An entry of an inputComponents array: a string or something else.
ConfigItems == {[is_str |-> TRUE, s |-> "Foo"], [is_str |-> FALSE, s |-> ""]}

\* The configuration value: none (value.get(0) is None), an object whose
\* inputComponents is no array, or one whose inputComponents is an array.
Configurations ==
    {[given |-> FALSE, is_array |-> FALSE, components |-> <<>>],
     [given |-> TRUE, is_array |-> FALSE, components |-> <<>>]}
    \cup {[given |-> TRUE, is_array |-> TRUE, components |-> c] :
              c \in UNION {[1..n -> ConfigItems] : n \in 0..MaxComponents}}

\* components.iter().filter_map(|c| c.as_str()...).collect()
RECURSIVE FilterStrings(_)
FilterStrings(components) ==
    IF components = <<>> THEN <<>>
    ELSE (IF Head(components).is_str THEN <<Head(components).s>> ELSE <<>>)
         \o FilterStrings(Tail(components))

\* AutocompleteValidConfig::default
DefaultComponents == <<"input">>

UnderLint == a11y_phase \in {"new", "configured"}

\* from_configuration
FromConfiguration(value) ==
    /\ a11y_phase = "new"
    /\ a11y_phase' = "configured"
    /\ input_components' =
           Append(IF value.given /\ value.is_array
                  THEN FilterStrings(value.components)
                  ELSE <<"input">>,
                  "input")
    /\ UNCHANGED <<node, a11y_diagnostics, resolverVars, firstVars>>

\* A JSX opening element as run() sees it: what get_element_type gives, what
\* has_jsx_prop_lowercase(.., "autocomplete") gives, and the attribute's
\* value.
Element(has_type, type, prop, value) ==
    [has_type |-> has_type, type |-> type, prop |-> prop, value |-> value]

Elements ==
    {Element(FALSE, "", prop, <<>>) : prop \in {"missing", "valueless"}}
    \cup {Element(TRUE, type, prop, <<>>) :
              type \in {"input", "Foo"},
              prop \in {"missing", "spread", "valueless", "expression"}}
    \cup {Element(TRUE, type, "literal", v) :
              type \in {"input", "Foo"}, v \in Values}
    \cup {Element(FALSE, "", "literal", v) : v \in Values}

NoNode == Element(FALSE, "", "missing", <<>>)

InRange(seq, x) == \E k \in 1..Len(seq) : seq[k] = x

\* run, on a JSXOpeningElement el
Run ==
    /\ UnderLint
    /\ \E el \in Elements :
           /\ a11y_phase' = "ran"
           /\ node' = el
           /\ a11y_diagnostics' =
                  IF /\ el.has_type
                     /\ InRange(input_components, el.type)
                     /\ el.prop = "literal"
                     /\ ~is_valid_autocomplete_value(el.value)
                  THEN Append(a11y_diagnostics, [autocomplete |-> el.value])
                  ELSE a11y_diagnostics
    /\ UNCHANGED <<input_components, resolverVars, firstVars>>

\* The rule as AutocompleteValid::default() makes it; run() not yet called.
InitA11y ==
    /\ input_components = DefaultComponents
    /\ node = NoNode
    /\ a11y_phase = "new"
    /\ a11y_diagnostics = <<>>

----------------------------------------------------------------------------

FileSystems ==
    {fs \in SUBSET Universe : Cardinality(fs) <= MaxFiles /\ Consistent(fs)}

NoProgram == [directive |-> FALSE, body |-> <<>>]

\* No call of the resolver is running.
InitResolver ==
    /\ pc = [t \in Threads |-> "idle"]
    /\ request = [t \in Threads |-> Specifier("", <<>>)]
    /\ path = [t \in Threads |-> NoPath]
    /\ main = [t \in Threads |-> <<>>]
    /\ result = [t \in Threads |-> NoResult]
    /\ seen = [t \in Threads |-> {}]
    /\ clean = [t \in Threads |-> TRUE]

\* run_once has not been called.
InitFirst ==
    /\ phase = "idle"
    /\ source_text = <<>>
    /\ index = 0
    /\ non_import_count = 0
    /\ any_expressions = FALSE
    /\ should_fix = TRUE
    /\ last_import_statement_end = 0
    /\ diagnostics = <<>>

Init ==
    /\ files \in FileSystems
    /\ content \in [ManifestPaths -> Contents \cup {Absent}]
    /\ \A p \in ManifestPaths : content[p] = Absent <=> p \notin files
    /\ InitResolver
    /\ program = NoProgram
    /\ fix = FALSE
    /\ InitFirst
    /\ InitA11y

\* One step of the call running on thread t.
Call(t) ==
    \/ \E r \in Requests : Resolve(t, D, r)
    \/ LoadAsFile1(t)
    \/ LoadAsFile2(t)
    \/ LoadAsDirectoryIsFile(t)
    \/ LoadAsDirectoryRead(t)
    \/ LoadMain(t, "main", "main_js")
    \/ LoadMain(t, "main_js", "main_again")
    \/ LoadMain(t, "main_again", "main_js_again")
    \/ LoadMain(t, "main_js_again", "done")
    \/ LoadIndex(t)

\* One caller, and a file system that changes while its calls run.
Next ==
    \/ Call("t1")
    \/ \E p \in Universe, c \in Contents : CreateFile(p, c)
    \/ \E p \in Universe : RemoveFile(p)

Spec == Init /\ [][Next]_vars

\* Calls on every thread, interleaved, and a file system nothing changes.
NextConcurrent == \E t \in Threads : Call(t)

SpecConcurrent == Init /\ [][NextConcurrent]_vars

\* import/first run once over each module of Programs, with and without fixes.
InitLint ==
    /\ files = {}
    /\ content = [p \in ManifestPaths |-> Absent]
    /\ InitResolver
    /\ program \in Programs
    /\ fix \in BOOLEAN
    /\ InitFirst
    /\ InitA11y

NextLint ==
    \/ RunOnce
    \/ RunOnceStatement
    \/ RunOnceReturn

SpecLint == InitLint /\ [][NextLint]_vars

\* autocomplete-valid: a rule, configured or not, run on one element.
InitAutocomplete ==
    /\ files = {}
    /\ content = [p \in ManifestPaths |-> Absent]
    /\ InitResolver
    /\ program = NoProgram
    /\ fix = FALSE
    /\ InitFirst
    /\ InitA11y

NextAutocomplete ==
    \/ \E value \in Configurations : FromConfiguration(value)
    \/ Run

SpecAutocomplete == InitAutocomplete /\ [][NextAutocomplete]_vars

----------------------------------------------------------------------------
(* What the calls are measured against.                                    *)

\* The call on thread t has returned, and the file system is as it was
\* throughout the call.
Settled(t) == pc[t] = "done" /\ clean[t]

Relative(t) == RequestTryFrom(request[t]) = "Relative"

\* The candidate of the call on thread t: the directory with the request.
Candidate(t) == Join(D, request[t].rest)

Outcome(t) == [kind |-> result[t].kind, path |-> result[t].path]

ManifestOf(x) == Join(x, <<PackageJson>>)

IndexUnder(x) == Join(x, <<IndexJs>>)

IndexBeside(x) == WithFileName(x, IndexJs)

\* Neither the candidate nor a candidate with .js is a regular file.
ProbeMiss(x) ==
    {x, AppendSuffix(x, "js"), WithExtension(x, "js")} \cap files = {}

ManifestIs(x, c) ==
    /\ ManifestOf(x) \in files
    /\ ManifestOf(x) \in ManifestPaths
    /\ content[ManifestOf(x)] = c

\* C1: a relative request whose candidate is a regular file resolves to the
\* candidate itself, whatever else exists; a result of a later step is
\* returned only when every earlier step found nothing: anything but the
\* first step's answer means the candidate is no file, and anything but the
\* first two steps' answers means the candidate with .js is no file either.
C1_FileFirst ==
    \A t \in Threads :
        Settled(t) /\ Relative(t) =>
            /\ Candidate(t) \in files => Outcome(t) = Ok(Candidate(t))
            /\ result[t].step # "file" => Candidate(t) \notin files
            /\ result[t].step \notin {"file", "file_js"} =>
                   WithExtension(Candidate(t), "js") \notin files

\* The candidate and the candidate with .js both exist; the candidate wins.
C1_Witness ==
    \E t \in Threads :
        /\ Settled(t) /\ Relative(t)
        /\ Candidate(t) \in files
        /\ AppendSuffix(Candidate(t), "js") \in files
        /\ WithExtension(Candidate(t), "js") \in files
        /\ Outcome(t) = Ok(Candidate(t))

\* C2: when the directory probe finds a manifest whose text does not parse,
\* the call returns the manifest error that carries the manifest's path,
\* whatever other files exist.
C2_ManifestParseError ==
    \A t \in Threads :
        /\ Settled(t) /\ Relative(t)
        /\ ProbeMiss(Candidate(t))
        /\ ManifestIs(Candidate(t), Invalid)
        => Outcome(t) = JSONError(ManifestOf(Candidate(t)))

\* A manifest that does not parse, with an index.js under the candidate and
\* one beside it.
C2_Witness ==
    \E t \in Threads :
        /\ Settled(t) /\ Relative(t)
        /\ ProbeMiss(Candidate(t))
        /\ ManifestIs(Candidate(t), Invalid)
        /\ IndexUnder(Candidate(t)) \in files
        /\ IndexBeside(Candidate(t)) \in files
        /\ Outcome(t) = JSONError(ManifestOf(Candidate(t)))

C3_WitnessFound ==
    \E t \in Threads :
        /\ Settled(t) /\ Relative(t)
        /\ ManifestIs(Candidate(t), WithMain(LibIndex))
        /\ Outcome(t) = Ok(AppendSuffix(Join(Candidate(t), LibIndex), "js"))

\* C4: with no file match and no manifest, the call returns X/index.js when
\* that file exists under the candidate X, and Not-found when it does not,
\* whether or not the parent of X holds an index.js.
C4_IndexUnderCandidate ==
    \A t \in Threads :
        /\ Settled(t) /\ Relative(t)
        /\ ProbeMiss(Candidate(t))
        /\ ManifestOf(Candidate(t)) \notin files
        => Outcome(t) =
               IF IndexUnder(Candidate(t)) \in files
               THEN Ok(IndexUnder(Candidate(t)))
               ELSE NotFound

\* C5: when the candidate is no regular file and the candidate with .js
\* appended to its whole name is, the call returns that path; the file
\* probe returns nothing but the candidate or the candidate with .js
\* appended.
C5_AppendJs ==
    \A t \in Threads :
        Settled(t) /\ Relative(t) =>
            /\ (Candidate(t) \notin files
                /\ AppendSuffix(Candidate(t), "js") \in files)
               => Outcome(t) = Ok(AppendSuffix(Candidate(t), "js"))
            /\ (result[t].step \in {"file", "file_js"} /\ result[t].kind = "Ok")
               => result[t].path \in
                      {Candidate(t), AppendSuffix(Candidate(t), "js")}

\* C6: with a manifest that parses and declares no entry, the call goes on
\* to the index lookup: X/index.js when it exists, Not-found only when not.
C6_NoMainFallsToIndex ==
    \A t \in Threads :
        /\ Settled(t) /\ Relative(t)
        /\ ProbeMiss(Candidate(t))
        /\ ManifestIs(Candidate(t), NoMain)
        => Outcome(t) =
               IF IndexUnder(Candidate(t)) \in files
               THEN Ok(IndexUnder(Candidate(t)))
               ELSE NotFound

\* C7: a call with an absolute specifier never panics: it returns a path or
\* an error.
C7_AbsoluteNeverPanics ==
    \A t \in Threads :
        pc[t] = "done" /\ RequestTryFrom(request[t]) = "Absolute"
            => result[t].kind \in {"Ok", "NotFound", "JSONError", "RequestError"}

\* C8: the step that reads a manifest it found to exist returns, when the
\* read fails (the file cannot be read, or is gone by then), the manifest
\* error that carries the manifest's path: no panic, no Not-found, no path.
C8_ReadFailureIsManifestError ==
    [][\A t \in Threads :
          (/\ pc[t] = "read"
           /\ pc'[t] # "read"
           /\ ManifestOf(path[t]) \in ManifestPaths
           /\ content[ManifestOf(path[t])].kind \in {"absent", "unreadable"})
          => /\ pc'[t] = "done"
             /\ result'[t].kind = "JSONError"
             /\ result'[t].path = ManifestOf(path[t])]_vars

\* C9: two calls with the same directory and specifier, run in any
\* interleaving with each other and with other calls against a file system
\* nothing changes, return the same outcome.
C9_Pure ==
    \A t, u \in Threads :
        Settled(t) /\ Settled(u) /\ request[t] = request[u]
            => result[t] = result[u]

\* Two calls have returned the same path for the same relative specifier.
C9_Witness ==
    \E t, u \in Threads :
        /\ t # u
        /\ Settled(t) /\ Settled(u)
        /\ request[t] = request[u]
        /\ Relative(t)
        /\ result[t].kind = "Ok"
        /\ result[t] = result[u]

\* The imports of the body that come after a statement that is no import.
LateImports(p) ==
    {i \in 1..Len(p.body) :
        /\ p.body[i].kind = "import"
        /\ \E j \in 1..(i - 1) : p.body[j].kind = "other"}

\* C10: run_once completes for every module, and has then reported one
\* diagnostic for each import that comes after a statement that is no
\* import, and none for any other import.
C10_ReportsLateImports ==
    /\ phase # "panic"
    /\ phase = "done" =>
         /\ Len(diagnostics) = Cardinality(LateImports(program))
         /\ {diagnostics[k].span : k \in 1..Len(diagnostics)}
                = {StatementSpan(program, i) : i \in LateImports(program)}

\* The characters of a text that belong to statements (no white space, no
\* directive).
StatementChars(text) == SelectSeq(text, LAMBDA ch : ch.s > 0)

\* The texts of the statements of one kind among the first n, in order.
RECURSIVE TextOfKind(_, _, _)
TextOfKind(p, n, kind) ==
    IF n = 0 THEN <<>>
    ELSE TextOfKind(p, n - 1, kind)
         \o (IF p.body[n].kind # kind THEN <<>>
             ELSE IF kind = "import" THEN ImportText(n) ELSE OtherText(n))

Occurrences(text, ch) == Cardinality({k \in 1..Len(text) : text[k] = ch})

IsRearrangement(a, b) ==
    /\ Len(a) = Len(b)
    /\ \A k \in 1..Len(a) : Occurrences(a, a[k]) = Occurrences(b, a[k])

\* Every late import of the module was given a fix, and run_once is through.
AllLateImportsFixed ==
    /\ phase = "done"
    /\ fix
    /\ LateImports(program) # {}
    /\ Len(diagnostics) = Cardinality(LateImports(program))
    /\ \A k \in 1..Len(diagnostics) : diagnostics[k].fixed

\* The text the fixes give, applied in statement order: each fix replaces
\* the whole text, so it is the content of the last one.
FixedText == diagnostics[Len(diagnostics)].content

\* C11: when every late import was fixed, the fixed text is a rearrangement
\* of the source text of the same length in which the imports, in their
\* original order, come before the other statements, in their original
\* order; for every layout of the module (white space before or between
\* the statements, a directive).
C11_FixMovesImportsFirst ==
    AllLateImportsFixed =>
        /\ IsRearrangement(FixedText, SourceText(program))
        /\ StatementChars(FixedText) =
               TextOfKind(program, Len(program.body), "import")
               \o TextOfKind(program, Len(program.body), "other")

\* The paths a call with candidate x can name as its answer: the candidate,
\* the candidate with the extension js, the entry path of a manifest and
\* that path with the extension js, and any file named index.js.
Answers(x) ==
    {x, WithExtension(x, "js")}
    \cup UNION {{Join(x, m), WithExtension(Join(x, m), "js")} : m \in Mains}
    \cup {p \in Universe : p[Len(p)] = IndexJs}

\* C13: against a file system that does not change, a path a call returns
\* is one the call itself saw is_file() answer true for, is a regular file
\* (no directory, no path that does not exist), and is the candidate, the
\* candidate with a js extension, the manifest's entry path or that path
\* with a js extension, or an index.js.
C13_SoundSuccess ==
    \A t \in Threads :
        Settled(t) /\ result[t].kind = "Ok" =>
            /\ result[t].path \in seen[t]
            /\ result[t].path \in files
            /\ \A q \in files : ~IsProperPrefix(result[t].path, q)
            /\ result[t].path \in Answers(Candidate(t))

\* A call has returned an index.js, found after a manifest-less directory
\* probe.
C13_Witness ==
    \E t \in Threads :
        /\ Settled(t)
        /\ result[t].kind = "Ok"
        /\ result[t].step = "index"
        /\ result[t].path \in seen[t]
        /\ result[t].path[Len(result[t].path)] = IndexJs

\* The positions of a value where a token starts: a piece that is no white
\* space, at the start or after white space.
TokenStarts(value) ==
    {i \in 1..Len(value) :
         value[i] # WhiteSpace /\ (i = 1 \/ value[i - 1] = WhiteSpace)}

\* The token that starts at position i, up to the next white space.
TokenAt(value, i) ==
    SubSeq(value, i,
           CHOOSE j \in i..Len(value) :
               /\ \A k \in i..j : value[k] # WhiteSpace
               /\ j = Len(value) \/ value[j + 1] = WhiteSpace)

Prefixes == {"billing", "shipping"}

\* The address tokens that may follow billing or shipping.
AddressTokens ==
    {"street-address", "address-line1", "address-line2", "address-line3",
     "address-level4", "address-level3", "address-level2", "address-level1",
     "country", "country-name", "postal-code"}

\* A value is valid when it is one token of the list of values, or two
\* tokens, billing or shipping and then an address token.
ValidValue(value) ==
    LET starts == TokenStarts(value)
        Is(i, set) == TokenAt(value, i) \in {<<w>> : w \in set}
    IN  \/ /\ Cardinality(starts) = 1
           /\ \A i \in starts : Is(i, VALID_AUTOCOMPLETE_VALUES)
        \/ /\ Cardinality(starts) = 2
           /\ \E i, j \in starts :
                  i < j /\ Is(i, Prefixes) /\ Is(j, AddressTokens)

Reported == a11y_diagnostics # <<>>

\* C12: input is among the input components whatever the configuration,
\* and an element the rule has run on is reported, once and with its value,
\* exactly when its type is one of the input components, its autocomplete
\* attribute has a string literal for a value, and that value is not valid.
C12_ReportsInvalidAutocomplete ==
    /\ InRange(input_components, "input")
    /\ a11y_phase = "ran" =>
           /\ Reported <=>
                  /\ node.has_type
                  /\ InRange(input_components, node.type)
                  /\ node.prop = "literal"
                  /\ ~ValidValue(node.value)
           /\ Reported =>
                  a11y_diagnostics = <<[autocomplete |-> node.value]>>
    /\ a11y_phase # "ran" => ~Reported

\* A configured rule whose inputComponents does not name input has reported
\* an input whose value is shipping and then a token that is no address
\* token.
C12_Witness ==
    /\ a11y_phase = "ran"
    /\ Reported
    /\ input_components = <<"Foo", "input">>
    /\ node.type = "input"
    /\ Cardinality(TokenStarts(node.value)) = 2
    /\ TokenAt(node.value, 1) = <<"shipping">>
    /\ ~ValidValue(node.value)

====
